---- MODULE Spec2Model ----
(***************************************************************************)
(* A model of the Century Communities scraper:                             *)
(*   get_centurycommunities_api_links.py  (link discovery: regions, then   *)
(*                                         listing links per region)       *)
(*   get_centurycommunities_page.py       (one Community Record per        *)
(*                                         listing URL, single or batch)   *)
(*                                                                         *)
(* Text is modelled as a sequence of tokens, so that prefixing the site    *)
(* origin, stripping and splitting are computed and not assumed.  An       *)
(* optional value (Python's None or a value) is a sequence of length 0 or  *)
(* 1.  Variables that exist only to state properties are marked "history". *)
(***************************************************************************)
EXTENDS Integers, Sequences, FiniteSets, TLC

VARIABLES
    pc,               \* the statement the running script is at
    drv,              \* the running function's browser session: none/open/quit
    lateNav,          \* history: a navigation was issued on a session not open
    created,          \* history: number of browser sessions created
    quits,            \* history: number of sessions on which quit() was called
    options,          \* get_city_links: the select control's option values
    optIdx,           \* get_city_links: position in the loop over options
    city_links,       \* get_city_links: the list being built / returned
    city_src,         \* history: the option (index in the control) of each entry
    regIdx,           \* get_community_links: position in the loop over regions
    community_links,  \* get_community_links: the list being built
    listing_links,    \* get_community_links: the value returned to main
    found,            \* history: per region attempted, the raw hrefs of its titled cards
    regionOk,         \* history: per region attempted, whether it was processed
    linksFile,        \* main: content of centurycommunities_links.json, if written
    mode,             \* page script: "batch", "url" or "default" (argparse)
    urls,             \* page script: the URL list read from the batch file
    urlIdx,           \* page script: position in the loop over urls
    attempts,         \* history: the fetch_page calls made, with their results
    url,              \* fetch_page: the local variable url
    page,             \* fetch_page: the rendered listing page
    data,             \* fetch_page: the record being built
    ret,              \* fetch_page: the value returned (None or Some(data))
    raised,           \* history: what raised inside fetch_page's try, or "none"
    geoCalls,         \* history: the geocoder calls of this fetch_page
    seen_models,      \* extract_homeplans: names already processed
    homeplans,        \* extract_homeplans: the list being built
    cardIdx,          \* position in the loop over floor-plan / move-in cards
    sqft_values,      \* fetch_page: numeric sqft of the homesites so far
    bed_values,       \* fetch_page: numeric beds of the homesites so far
    bath_values,      \* fetch_page: numeric baths (in tenths) of the homesites
    navs,             \* history: the detail-page loads of this fetch_page
    arg,              \* history: the URL fetch_page was called with
    ex_text,          \* the text a field extractor is called with (None: no text)
    extracted         \* the extractor called with ex_text, and what it did

linkVars == <<options, optIdx, city_links, city_src, regIdx, 
              community_links, listing_links, found, regionOk, linksFile>>
drvVars == <<drv, lateNav, created, quits>>
loopVars == <<seen_models, homeplans, cardIdx, sqft_values, bed_values, bath_values>>
mainVars == <<mode, urls, urlIdx, attempts>>
exVars == <<ex_text, extracted>>
pageVars == <<mainVars, url, page, data, ret, raised, geoCalls, loopVars, navs, arg,
              exVars>>
others == <<drvVars, linkVars, exVars, mainVars, url, page, ret, geoCalls, loopVars, navs, arg>>
vars == <<pc, drvVars, linkVars, mode, urls, urlIdx, attempts, url, page, data, ret,
          raised, geoCalls, seen_models, homeplans, cardIdx, sqft_values,
          bed_values, bath_values, navs, arg, exVars>>

----------------------------------------------------------------------------
(* Bounds of the model *)
MaxOptions == 4       \* options of the select control, placeholder included
MaxCards == 2         \* community cards on one region page
MaxPlanCards == 2     \* floor-plan cards on one listing page
MaxCarousel == 14     \* items of a homesite photo carousel
MaxUrls == 2          \* URLs in the batch file
MaxPhrases == 2       \* phrases of a text given to a field extractor

\* if count >= 12: break
MaxImages == 12

----------------------------------------------------------------------------
(* Optional values and text *)
None == << >>
Some(x) == <<x>>
Get(o) == o[1]

ToSet(s) == {s[i] : i \in 1..Len(s)}
SeqsUpTo(S, n) == UNION {[1..k -> S] : k \in 0..n}

\* A URL, path or src is a sequence of string tokens; "/" and "---" are tokens
\* of their own.  'https://www.centurycommunities.com':
Origin == <<"http", "s:", "/", "/", "www.centurycommunities.com">>

\* str.startswith('http')
StartsWithHttp(href) == Len(href) >= 1 /\ href[1] = "http"

\* if not href.startswith('http'): href = 'https://www.centurycommunities.com' + href
NormalizeNoPrefix(href) == href
Normalize(href) == IF StartsWithHttp(href) THEN href ELSE Origin \o href

----------------------------------------------------------------------------
(* Browser sessions *)

\* webdriver.Chrome(options=...) succeeded
OpenSession ==
    /\ drv' = "open"
    /\ created' = created + 1
    /\ UNCHANGED <<lateNav, quits>>

\* driver.get(url) (or any page load on the function's session)
Navigate ==
    /\ lateNav' = (lateNav \/ drv # "open")
    /\ UNCHANGED <<drv, created, quits>>

\* driver.quit()
QuitSession ==
    /\ drv' = "quit"
    /\ quits' = quits + 1
    /\ UNCHANGED <<lateNav, created>>

----------------------------------------------------------------------------
(* get_centurycommunities_api_links.py : get_city_links *)

\* values an <option> can carry: no value attribute, '', the sentinel '0',
\* relative region paths and an absolute URL equal to a normalised path
SentinelValue == <<"0">>
OptionValues ==
    { None, Some(<< >>), Some(SentinelValue),
      Some(<<"/", "ga">>), Some(<<"/", "tx">>), Some(<<"/", "fl">>),
      Some(Origin \o <<"/", "ga">>) }

\* select_element.find_all('option')[1:] as indices into the control's options
OptionIndicesAll(opts) == [i \in 1..Len(opts) |-> i]
OptionIndices(opts) == [i \in 1..(Len(opts) - 1) |-> i + 1]

\* if href and href != "0"
Accepts(v) == v # None /\ Get(v) # << >> /\ Get(v) # SentinelValue

\* driver = setup_driver(), before the try block: a failure reaches main
CitySetup ==
    /\ pc = "cl_setup"
    /\ \/ /\ OpenSession
          /\ pc' = "cl_get"
       \/ /\ pc' = "lm_except"
          /\ UNCHANGED drvVars
    /\ UNCHANGED linkVars
    /\ UNCHANGED pageVars

\* driver.get(url); time.sleep(5)
CityGet ==
    /\ pc = "cl_get"
    /\ Navigate
    /\ pc' \in {"cl_save", "cl_except"}
    /\ UNCHANGED linkVars
    /\ UNCHANGED pageVars

\* os.makedirs / open / write of the initial page
CitySave ==
    /\ pc = "cl_save"
    /\ pc' \in {"cl_parse", "cl_except"}
    /\ UNCHANGED <<drvVars, linkVars>>
    /\ UNCHANGED pageVars

\* soup.find('select', ...): absent, or present with its options
CityParse ==
    /\ pc = "cl_parse"
    /\ \/ /\ pc' = "cl_finally"
          /\ UNCHANGED options
       \/ /\ \E opts \in SeqsUpTo(OptionValues, MaxOptions) : options' = opts
          /\ pc' = "cl_loop"
    /\ optIdx' = 1
    /\ UNCHANGED <<drvVars, city_links, city_src, regIdx, community_links,
                   listing_links, found, regionOk, linksFile>>
    /\ UNCHANGED pageVars

\* one iteration of: for option in options
CityOption ==
    /\ pc = "cl_loop"
    /\ optIdx <= Len(OptionIndices(options))
    /\ LET src == OptionIndices(options)[optIdx]
           v == options[src]
       IN  IF Accepts(v) /\ Normalize(Get(v)) \notin ToSet(city_links)
           THEN /\ city_links' = Append(city_links, Normalize(Get(v)))
                /\ city_src' = Append(city_src, src)
           ELSE UNCHANGED <<city_links, city_src>>
    /\ optIdx' = optIdx + 1
    /\ UNCHANGED <<pc, drvVars, options, regIdx, community_links,
                   listing_links, found, regionOk, linksFile>>
    /\ UNCHANGED pageVars

\* the loop is exhausted: return city_links
CityReturn ==
    /\ pc = "cl_loop"
    /\ optIdx > Len(OptionIndices(options))
    /\ pc' = "cl_finally"
    /\ UNCHANGED <<drvVars, linkVars>>
    /\ UNCHANGED pageVars

\* except Exception: return []
CityExcept ==
    /\ pc = "cl_except"
    /\ city_links' = << >>
    /\ city_src' = << >>
    /\ pc' = "cl_finally"
    /\ UNCHANGED <<drvVars, options, optIdx, regIdx, community_links,
                   listing_links, found, regionOk, linksFile>>
    /\ UNCHANGED pageVars

\* finally: driver.quit(); a failing quit() replaces the return by its exception
CityFinally ==
    /\ pc = "cl_finally"
    /\ QuitSession
    /\ pc' \in {"lm_city", "lm_except"}
    /\ UNCHANGED linkVars
    /\ UNCHANGED pageVars

----------------------------------------------------------------------------
(* get_centurycommunities_api_links.py : get_community_links *)

\* a community card: its h2.card-title, the <a> inside it, the <a>'s href
Card(t, a, h) == [title |-> t, anchor |-> a, href |-> h]
CardKinds ==
    { Card(FALSE, FALSE, None), Card(TRUE, FALSE, None), Card(TRUE, TRUE, None),
      Card(TRUE, TRUE, Some(<< >>)),
      Card(TRUE, TRUE, Some(<<"/", "c1">>)), Card(TRUE, TRUE, Some(<<"/", "c2">>)),
      Card(TRUE, TRUE, Some(Origin \o <<"/", "c1">>)) }

\* if title: link = title.find('a'); if link and link.get('href')
HasHref(card) ==
    card.title /\ card.anchor /\ card.href # None /\ Get(card.href) # << >>

\* the raw hrefs a page's titled cards carry
TitledHrefs(cs) == {Get(cs[i].href) : i \in {j \in 1..Len(cs) : HasHref(cs[j])}}

\* if href not in community_links: community_links.append(href)
AddLink(links, href) == IF href \in ToSet(links) THEN links ELSE Append(links, href)

\* for card in community_cards: ... (the whole loop over one page's cards)
RECURSIVE AddCards(_, _)
AddCards(links, cs) ==
    IF cs = << >> THEN links
    ELSE AddCards(IF HasHref(Head(cs))
                  THEN AddLink(links, Normalize(Get(Head(cs).href)))
                  ELSE links,
                  Tail(cs))

\* list(set(community_links)): the elements once each, in an order of the set's
Orderings(S) == {s \in [1..Cardinality(S) -> S] : ToSet(s) = S}
ListOfSet(links) == Orderings(ToSet(links))

\* driver = setup_driver(), before the try block: a failure reaches main
ListSetup ==
    /\ pc = "cm_setup"
    /\ \/ /\ OpenSession
          /\ pc' = "cm_loop"
       \/ /\ pc' = "lm_except"
          /\ UNCHANGED drvVars
    /\ regIdx' = 1
    /\ community_links' = << >>
    /\ UNCHANGED <<options, optIdx, city_links, city_src, listing_links,
                   found, regionOk, linksFile>>
    /\ UNCHANGED pageVars

\* one iteration of: for url in city_links, with its own try/except/continue
RegionSkipAborts ==
    /\ pc = "cm_loop"
    /\ regIdx <= Len(city_links)
    /\ Navigate
    /\ \/ /\ regionOk' = Append(regionOk, FALSE)
          /\ regIdx' = Len(city_links) + 1
          /\ community_links' = << >>
          /\ found' = Append(found, {})
       \/ \E cs \in SeqsUpTo(CardKinds, MaxCards) :
            /\ community_links' = AddCards(community_links, cs)
            /\ found' = Append(found, TitledHrefs(cs))
            /\ regionOk' = Append(regionOk, TRUE)
            /\ regIdx' = regIdx + 1
    /\ UNCHANGED <<pc, options, optIdx, city_links, city_src, listing_links, linksFile>>
    /\ UNCHANGED pageVars
ListRegion ==
    /\ pc = "cm_loop"
    /\ regIdx <= Len(city_links)
    /\ Navigate
    /\ \/ \* driver.get(url) raised, or saving the page raised: log, continue
          /\ regionOk' = Append(regionOk, FALSE)
          /\ found' = Append(found, {})
          /\ UNCHANGED community_links
       \/ \E cs \in SeqsUpTo(CardKinds, MaxCards) :
            /\ community_links' = AddCards(community_links, cs)
            /\ found' = Append(found, TitledHrefs(cs))
            /\ regionOk' = Append(regionOk, TRUE)
    /\ regIdx' = regIdx + 1
    /\ UNCHANGED <<pc, options, optIdx, city_links, city_src, listing_links, linksFile>>
    /\ UNCHANGED pageVars

\* return list(set(community_links))
ListReturn ==
    /\ pc = "cm_loop"
    /\ regIdx > Len(city_links)
    /\ listing_links' \in ListOfSet(community_links)
    /\ pc' = "cm_finally"
    /\ UNCHANGED <<drvVars, options, optIdx, city_links, city_src, regIdx, 
                   community_links, found, regionOk, linksFile>>
    /\ UNCHANGED pageVars

\* finally: driver.quit(); a failing quit() replaces the return by its exception
ListFinally ==
    /\ pc = "cm_finally"
    /\ QuitSession
    /\ pc' \in {"lm_listings", "lm_except"}
    /\ UNCHANGED linkVars
    /\ UNCHANGED pageVars

----------------------------------------------------------------------------
(* get_centurycommunities_api_links.py : main *)

\* city_links = get_city_links()
LinksMainStart ==
    /\ pc = "start"
    /\ pc' = "cl_setup"
    /\ UNCHANGED <<drvVars, linkVars>>
    /\ UNCHANGED pageVars

\* if not city_links: return;  community_links = get_community_links(city_links)
LinksMainCity ==
    /\ pc = "lm_city"
    /\ pc' = IF city_links = << >> THEN "lm_done" ELSE "cm_setup"
    /\ options' = << >>
    /\ optIdx' = 1
    /\ city_src' = << >>
    /\ drv' = "none"
    /\ UNCHANGED <<lateNav, created, quits, city_links, regIdx, 
                   community_links, listing_links, found, regionOk, linksFile>>
    /\ UNCHANGED pageVars

\* if not community_links: return;  else go on to save the links
LinksMainListingsAlwaysSaves ==
    /\ pc = "lm_listings"
    /\ pc' = "lm_save"
    /\ UNCHANGED <<drvVars, linkVars>>
    /\ UNCHANGED pageVars
LinksMainListings ==
    /\ pc = "lm_listings"
    /\ pc' = IF listing_links = << >> THEN "lm_done" ELSE "lm_save"
    /\ UNCHANGED <<drvVars, linkVars>>
    /\ UNCHANGED pageVars

\* with open('centurycommunities_links.json', 'w') ...: json.dump(community_links)
LinksMainSave ==
    /\ pc = "lm_save"
    /\ \/ /\ linksFile' = Some(listing_links)
          /\ pc' = "lm_done"
       \/ /\ pc' = "lm_except"
          /\ UNCHANGED linksFile
    /\ UNCHANGED <<drvVars, options, optIdx, city_links, city_src, regIdx, 
                   community_links, listing_links, found, regionOk>>
    /\ UNCHANGED pageVars

\* except Exception as e: logger.error(...)
LinksMainExcept ==
    /\ pc = "lm_except"
    /\ pc' = "lm_done"
    /\ UNCHANGED <<drvVars, linkVars>>
    /\ UNCHANGED pageVars

----------------------------------------------------------------------------
(* get_centurycommunities_page.py : text of the rendered markup             *)
(*                                                                          *)
(* The text of an element is a sequence of tokens: words, numerals, a       *)
(* dollar sign, commas, blanks and line breaks.  A numeral keeps its comma  *)
(* groups ("1,950" is Num(<<1, 950>>); groups after the first are three     *)
(* digits wide), a decimal numeral its tenths ("2.5" is Dec(2, 5)).         *)

Ws == [k |-> "ws"]
Nl == [k |-> "nl"]
Comma == [k |-> "comma"]
Dollar == [k |-> "dollar"]
W(s) == [k |-> "w", s |-> s]
Num(g) == [k |-> "num", g |-> g]
Dec(i, f) == [k |-> "dec", i |-> i, f |-> f]

SetMin(S) == CHOOSE x \in S : \A y \in S : x <= y
IsSpace(t) == t.k \in {"ws", "nl"}

\* str.strip()
RECURSIVE LStrip(_)
LStrip(t) == IF t # << >> /\ IsSpace(Head(t)) THEN LStrip(Tail(t)) ELSE t
RECURSIVE RStrip(_)
RStrip(t) ==
    IF t # << >> /\ IsSpace(t[Len(t)]) THEN RStrip(SubSeq(t, 1, Len(t) - 1)) ELSE t
Strip(t) == RStrip(LStrip(t))

\* str.split(sep) for a separator token: the pieces between its occurrences
RECURSIVE SplitOn(_, _)
SplitOn(t, sep) ==
    LET at == {i \in 1..Len(t) : t[i] = sep}
    IN  IF at = {} THEN <<t>>
        ELSE <<SubSeq(t, 1, SetMin(at) - 1)>>
             \o SplitOn(SubSeq(t, SetMin(at) + 1, Len(t)), sep)

\* str.split(): the maximal runs of tokens that are not white space
RECURSIVE SplitWs(_)
SplitWs(t) ==
    LET s == LStrip(t)
        at == {i \in 1..Len(s) : IsSpace(s[i])}
    IN  IF s = << >> THEN << >>
        ELSE IF at = {} THEN <<s>>
        ELSE <<SubSeq(s, 1, SetMin(at) - 1)>> \o SplitWs(SubSeq(s, SetMin(at), Len(s)))

\* sep.join(parts)
RECURSIVE Join(_, _)
Join(parts, sep) ==
    IF parts = << >> THEN << >>
    ELSE IF Len(parts) = 1 THEN parts[1]
    ELSE parts[1] \o sep \o Join(Tail(parts), sep)

\* [part.strip() for part in text.split('\n') if part.strip()]
StrippedLines(t) ==
    LET ls == SplitOn(t, Nl)
    IN  SelectSeq([i \in 1..Len(ls) |-> Strip(ls[i])], LAMBDA l : l # << >>)

\* ' '.join(text.split())
Squeeze(t) == Join(SplitWs(t), <<Ws>>)

\* the number a sequence of comma groups writes
RECURSIVE GroupsValue(_)
GroupsValue(g) ==
    IF Len(g) = 1 THEN g[1]
    ELSE GroupsValue(SubSeq(g, 1, Len(g) - 1)) * 1000 + g[Len(g)]

\* word.replace(',', ''): the commas go, inside the numerals and between them
RemoveCommas(word) ==
    LET kept == SelectSeq(word, LAMBDA tok : tok.k # "comma")
    IN  [i \in 1..Len(kept) |->
            IF kept[i].k = "num" THEN Num(<<GroupsValue(kept[i].g)>>) ELSE kept[i]]

\* int(word): Some(value), or None where Python raises ValueError
IntOf(word) ==
    IF Len(word) = 1 /\ word[1].k = "num" /\ Len(word[1].g) = 1
    THEN Some(word[1].g[1]) ELSE None

\* float(word), in tenths: Some(value), or None where Python raises ValueError
FloatOf(word) ==
    IF Len(word) = 1 /\ word[1].k = "num" /\ Len(word[1].g) = 1
    THEN Some(10 * word[1].g[1])
    ELSE IF Len(word) = 1 /\ word[1].k = "dec"
    THEN Some(10 * word[1].i + word[1].f) ELSE None

\* f"{n}" of an int, f"{n:,}" of an int, f"{x}" of a float given in tenths
FormatInt(n) == <<Num(<<n>>)>>
RECURSIVE Groups(_)
Groups(n) == IF n < 1000 THEN <<n>> ELSE Append(Groups(n \div 1000), n % 1000)
FormatThousands(n) == <<Num(Groups(n))>>
FormatFloat(x) == <<Dec(x \div 10, x % 10)>>

----------------------------------------------------------------------------
(* get_centurycommunities_page.py : the field extractors                    *)
(*                                                                          *)
(* A regular expression is modelled by what it finds in a token sequence.   *)
(* The words are classified by the letters the patterns look for; a digit   *)
(* group may begin inside a numeral ("450" of "2,450", "5" of "2.5").       *)

\* a call that returned v, a call that raised e
Returned(v) == [kind |-> "returned", value |-> v]
Threw(e) == [kind |-> "raised", error |-> e]

\* "not text": the argument is None or the empty string
Falsy(text) == text = None \/ Get(text) = << >>

\* re.search(pattern, text): TypeError where text is None, else what the
\* pattern finds in the text (m, looked at only where text is a string)
ReSearch(m, text) ==
    IF text = None THEN Threw("TypeError") ELSE Returned(m)

\* the first position from i on that holds no white space (\s*)
SkipSpace(t, i) ==
    LET at == {j \in i..Len(t) : ~IsSpace(t[j])}
    IN  IF at = {} THEN Len(t) + 1 ELSE SetMin(at)

\* [\d,]+ from token s on: the last token of the run of numerals and commas
RunEnd(t, s) ==
    LET stop == {j \in (s + 1)..Len(t) : t[j].k \notin {"num", "comma"}}
    IN  IF stop = {} THEN Len(t) ELSE SetMin(stop) - 1

\* \$[\d,]+ : the first dollar sign that a digit or comma follows, with the run
\* of digits and commas after it (up to the point of a decimal numeral)
PriceMatch(t) ==
    LET at == {i \in 1..(Len(t) - 1) :
                  t[i] = Dollar /\ t[i + 1].k \in {"num", "comma", "dec"}}
        i == SetMin(at)
        e == RunEnd(t, i + 1)
    IN  IF at = {} THEN None
        ELSE IF t[i + 1].k = "dec" THEN Some(<<Dollar, Num(<<t[i + 1].i>>)>>)
        ELSE IF e < Len(t) /\ t[e + 1].k = "dec"
        THEN Some(SubSeq(t, i, e) \o <<Num(<<t[e + 1].i>>)>>)
        ELSE Some(SubSeq(t, i, e))

\* def extract_price(text)
ExtractPriceUnguarded(text) == ReSearch(PriceMatch(Get(text)), text)
ExtractPrice(text) ==
    IF Falsy(text) THEN Returned(None) ELSE ReSearch(PriceMatch(Get(text)), text)

\* words that begin, whatever the case, with Bedroom, Bed or BR; with Bathroom,
\* Bath or BA
BedWords == {"Beds", "bedrooms", "BR", "Bed", "brick"}
BathWords == {"Baths", "bathroom", "BA", "Bath", "balcony"}

\* the digits that end at a numeral's end: \d+ cannot cross a comma or a point
LastDigits(tok) ==
    IF tok.k = "num" THEN Num(<<tok.g[Len(tok.g)]>>) ELSE Num(<<tok.f>>)

\* (\d+)\s*(?:Bedroom|Bed|BR|br), re.IGNORECASE
BedsMatch(t) ==
    LET at == {e \in 1..Len(t) :
                  /\ t[e].k \in {"num", "dec"}
                  /\ LET j == SkipSpace(t, e + 1)
                     IN  j <= Len(t) /\ t[j].k = "w" /\ t[j].s \in BedWords}
    IN  IF at = {} THEN None ELSE Some(<<LastDigits(t[SetMin(at)])>>)

\* (\d+(?:\.\d+)?)\s*(?:Bathroom|Bath|BA|ba), re.IGNORECASE
BathsMatch(t) ==
    LET at == {e \in 1..Len(t) :
                  /\ t[e].k \in {"num", "dec"}
                  /\ LET j == SkipSpace(t, e + 1)
                     IN  j <= Len(t) /\ t[j].k = "w" /\ t[j].s \in BathWords}
        tok == t[SetMin(at)]
    IN  IF at = {} THEN None
        ELSE IF tok.k = "dec" THEN Some(<<tok>>) ELSE Some(<<LastDigits(tok)>>)

\* def extract_beds_baths(text)
ExtractBedsBaths(text) ==
    LET beds == ReSearch(BedsMatch(Get(text)), text)
        baths == ReSearch(BathsMatch(Get(text)), text)
    IN  IF Falsy(text) THEN Returned([beds |-> None, baths |-> None])
        ELSE IF beds.kind = "raised" THEN beds
        ELSE IF baths.kind = "raised" THEN baths
        ELSE Returned([beds |-> beds.value, baths |-> baths.value])

\* words that text.lower() turns into "sq", "sq." or "square"; words whose lower
\* case begins with "ft"; words whose lower case begins with "sqft" or "sq.ft"
SqWords == {"sq", "Sq.", "square", "Square", "SQ"}
FtWords == {"ft", "Ft.", "FT", "ft."}
SqftWords == {"sqft", "SQFT", "Sq.Ft.", "SqFt"}

\* sq(?:\.|uare)?\s*ft at token i of text.lower()
SqftUnitAt(t, i) ==
    /\ i <= Len(t)
    /\ t[i].k = "w"
    /\ \/ t[i].s \in SqftWords
       \/ /\ t[i].s \in SqWords
          /\ LET j == SkipSpace(t, i + 1)
             IN  j <= Len(t) /\ t[j].k = "w" /\ t[j].s \in FtWords

\* ([\d,]+)\s*sq(?:\.|uare)?\s*ft : the group of the leftmost match
SqftMatch(t) ==
    LET at == {s \in 1..Len(t) :
                  /\ t[s].k \in {"num", "comma", "dec"}
                  /\ SqftUnitAt(t, SkipSpace(t, RunEnd(t, s) + 1))}
        s == SetMin(at)
        first == IF t[s].k = "dec" THEN LastDigits(t[s]) ELSE t[s]
    IN  IF at = {} THEN None
        ELSE Some(<<first>> \o SubSeq(t, s + 1, RunEnd(t, s)))

\* def extract_sqft(text)
ExtractSqft(text) ==
    LET sqft_match == ReSearch(SqftMatch(Get(text)), text)
    IN  IF Falsy(text) THEN Returned(None)
        ELSE IF sqft_match.kind = "raised" \/ sqft_match.value = None THEN sqft_match
        ELSE Returned(Some(RemoveCommas(Get(sqft_match.value))))

----------------------------------------------------------------------------
\* the value of extracted before any call
NotCalled == [fn |-> "none", out |-> Returned(None)]

\* the phrases that the explored texts are made of
ExtractorPhrases ==
    { <<Dollar, Num(<<312, 990>>)>>, <<Dollar, Num(<<289, 990>>), Comma>>,
      <<Dollar>>, <<Dollar, Dec(2, 5), W("M")>>, <<W("USD"), Ws, Num(<<500>>)>>,
      <<Num(<<3>>), Ws, W("Beds")>>, <<Num(<<4>>), W("BR")>>,
      <<Num(<<5>>), Nl, W("bedrooms")>>, <<W("Studio")>>,
      <<Num(<<2>>), Ws, W("Baths")>>, <<Dec(2, 5), Ws, W("BA")>>,
      <<Num(<<2, 450>>), Ws, W("sq"), Ws, W("ft")>>,
      <<Num(<<1, 800>>), W("sqft")>>, <<Num(<<1950>>), Ws, W("SQFT")>>,
      <<Num(<<2, 450>>), Ws, W("square"), Ws, W("feet")>>,
      <<Num(<<2, 200>>), Ws, W("Square"), Ws, W("FT")>>,
      <<Num(<<2, 450>>), Comma, Ws, W("Sq."), W("Ft.")>>,
      <<Comma, Ws, W("sq"), Ws, W("ft")>>,
      <<Num(<<30253>>)>>, <<W("Beds")>>, <<W("sqft")>>, <<W("Avery")>> }

\* the texts: up to MaxPhrases phrases with a blank between them; and no text
ExtractorTexts == { Join(ps, <<Ws>>) : ps \in SeqsUpTo(ExtractorPhrases, MaxPhrases) }
ExtractorInputs == {None} \cup { Some(t) : t \in ExtractorTexts }

\* min(values), max(values) of a non-empty list, scanned as Python scans it
MinOfFirst(vs) == vs[1]
RECURSIVE MinOf(_)
MinOf(vs) ==
    IF Len(vs) = 1 THEN vs[1]
    ELSE LET m == MinOf(SubSeq(vs, 1, Len(vs) - 1))
         IN  IF vs[Len(vs)] < m THEN vs[Len(vs)] ELSE m
RECURSIVE MaxOf(_)
MaxOf(vs) ==
    IF Len(vs) = 1 THEN vs[1]
    ELSE LET m == MaxOf(SubSeq(vs, 1, Len(vs) - 1))
         IN  IF vs[Len(vs)] > m THEN vs[Len(vs)] ELSE m

\* url.split('/')[-2]: None where the split has fewer than two pieces
SecondToLastSegment(u) ==
    LET ps == SplitOn(u, "/")
    IN  IF Len(ps) < 2 THEN None ELSE Some(ps[Len(ps) - 1])

\* url.split('/')[-2].split('---')[0]
LotId(u) == SplitOn(Get(SecondToLastSegment(u)), "---")[1]

----------------------------------------------------------------------------
(* get_centurycommunities_page.py : the pages the site serves               *)
(*                                                                          *)
(* A listing page is a record of what the element lookups of fetch_page     *)
(* find.  A lookup that finds nothing is None; an element found whose child *)
(* or attribute is missing is Some(None).  The pages explored are the       *)
(* reference page, the pages that differ from it in the heading elements,   *)
(* and the pages whose cards each differ from the reference card in one     *)
(* feature.                                                                 *)

NameText == <<Nl, Ws, W("Oakhurst Manor"), Nl, Ws, W("New Homes"), Nl>>
BlankText == <<Nl, Ws>>
PriceText == <<W("Starting at"), Ws, Dollar, Num(<<312, 990>>), Ws, W("for")>>
NoPriceText == <<W("Call"), Ws, W("us")>>
AddressOneLine == <<W("123 Main St")>>
AddressTwoLines ==
    <<Nl, Ws, W("123 Main St"), Nl, Ws, W("McDonough"), Comma, Ws, W("GA"), Ws,
      Num(<<30253>>), Nl>>
PhoneText == <<Ws, W("770-555-0100")>>
OverviewText == <<Nl, Ws, W("Welcome"), Nl, Ws, Ws, W("home"), Ws>>
FallbackText == <<W("A"), Ws, Ws, W("community")>>

\* a <script> with the latitude and the longitude its text matches (None: no
\* match), and the div that carries data-lat and data-lng (None inside it: a
\* value that float() rejects)
Script(la, lo) == [lat |-> la, lon |-> lo]
ScriptKinds ==
    { << >>, <<Script(Some(33), None)>>,
      <<Script(Some(33), None), Script(Some(33), Some(84))>> }
MapKinds == { None, Some(Script(Some(34), Some(85))), Some(Script(None, Some(85))) }

HeroSrc == <<"/", "img", "/", "hero.jpg">>
ImageKinds ==
    { None, Some(<< >>), Some(<<Some(<<"data:", "gif">>)>>),
      Some(<<None, Some(<<"data:", "gif">>), Some(HeroSrc)>>),
      Some(<<Some(Origin \o HeroSrc)>>) }

Section(h, ps) == [heading |-> h, places |-> ps]
SchoolPlaces == <<<<Ws, W("Oak Elementary")>>, <<Ws>>, <<W("Pine High")>>>>
NearbyKinds ==
    { None, Some(<< >>),
      Some(<<Section(Some(Some(<<W("Schools")>>)), Some(SchoolPlaces))>>),
      Some(<<Section(None, Some(SchoolPlaces)),
             Section(Some(Some(<<W("Dining")>>)), Some(<<<<W("Cafe")>>>>))>>),
      Some(<<Section(Some(Some(<<W("Schools")>>)), None)>>),
      Some(<<Section(Some(None), Some(SchoolPlaces))>>) }

DefaultHeader ==
    [ nameBox |-> Some(Some(NameText)),
      price |-> Some(PriceText),
      address |-> Some(AddressTwoLines),
      scripts |-> <<Script(Some(33), None), Script(Some(33), Some(84))>>,
      map |-> None,
      phone |-> Some(Some(PhoneText)),
      overview |-> Some(Some(OverviewText)),
      fallback |-> None,
      carousel |-> Some(<<None, Some(<<"data:", "gif">>), Some(HeroSrc)>>),
      nearby |-> Some(<<Section(Some(Some(<<W("Schools")>>)), Some(SchoolPlaces))>>) ]

HeaderKinds ==
    { [DefaultHeader EXCEPT !.nameBox = n, !.price = p, !.address = a] :
        n \in {None, Some(None), Some(Some(BlankText)), Some(Some(NameText))},
        p \in {None, Some(NoPriceText), Some(PriceText)},
        a \in {None, Some(AddressOneLine), Some(AddressTwoLines)} }
    \cup
    { [DefaultHeader EXCEPT !.address = a, !.scripts = s, !.map = m] :
        a \in {None, Some(AddressOneLine), Some(AddressTwoLines)},
        s \in ScriptKinds, m \in MapKinds }
    \cup
    { [DefaultHeader EXCEPT !.phone = ph] : ph \in {None, Some(None)} }
    \cup
    { [DefaultHeader EXCEPT !.overview = o, !.fallback = f] :
        o \in {None, Some(None), Some(Some(BlankText)), Some(Some(OverviewText))},
        f \in {None, Some(None), Some(Some(FallbackText))} }
    \cup
    { [DefaultHeader EXCEPT !.carousel = c] : c \in ImageKinds }
    \cup
    { [DefaultHeader EXCEPT !.nearby = nb] : nb \in NearbyKinds }

\* a tab of a floor-plan detail page: its text (None: reading it raises) and
\* the image of the pane it activates (None: click or lookup raises;
\* Some(None): an <img> without src)
Tab(t, i) == [text |-> t, img |-> i]
PlanSrc == <<"/", "plans", "/", "first.png">>
DefaultTabs ==
    <<Tab(Some(<<W("First Floor")>>), Some(Some(PlanSrc))),
      Tab(Some(<<W("Options")>>), Some(Some(PlanSrc)))>>
TabsKinds ==
    { <<Tab(None, Some(Some(PlanSrc))), Tab(Some(<<W("Second Floor")>>), Some(Some(PlanSrc)))>>,
      <<Tab(Some(<<W("First Floor")>>), None),
        Tab(Some(<<W("Second Floor")>>), Some(Some(Origin \o PlanSrc)))>> }

\* the photo carousel of a homesite detail page: n items, every h-th of them
\* without an image source (h = 0: none)
Carousel(n, h) ==
    [i \in 1..n |->
        IF h > 0 /\ i % h = 0 THEN None ELSE Some(<<"/", "photos", "/", ToString(i)>>)]

\* the detail link of the i-th card of a page
LotLink(i) == <<"/", "homes", "/", "lot" \o ToString(i), "---", "avery", "/">>

DefaultCard ==
    [ title |-> Some(<<W("Avery")>>),
      link |-> Some(Some(<<"/">>)),
      price |-> Some(<<Dollar, Num(<<289, 990>>)>>),
      beds |-> Some(<<Num(<<3>>), Ws, W("Beds")>>),
      baths |-> Some(<<Num(<<2>>), Ws, W("Baths")>>),
      sqft |-> Some(<<Num(<<1, 950>>), Ws, W("sq ft")>>),
      img |-> Some(Some(<<"/", "img", "/", "home.jpg">>)),
      street |-> Some(<<W("123 Oak Ln"), Ws, W("|"), Ws, W("Lot 12")>>),
      flags |-> <<<<W("Move-In Ready")>>, <<Ws, W("New")>>>>,
      planNav |-> TRUE,
      tabs |-> DefaultTabs,
      siteNav |-> TRUE,
      box |-> TRUE,
      items |-> Carousel(2, 0) ]

\* the cards that differ from the reference card in one feature
PlanCardKinds ==
    {DefaultCard}
    \cup { [DefaultCard EXCEPT !.title = t] :
             t \in {None, Some(<<Ws, W("Avery"), Nl>>), Some(<<W("Brooks")>>)} }
    \cup { [DefaultCard EXCEPT !.link = l] : l \in {None, Some(None)} }
    \cup { [DefaultCard EXCEPT !.price = None] }
    \cup { [DefaultCard EXCEPT !.beds = b] :
             b \in {None, Some(<<Num(<<4>>), Ws, W("Beds")>>), Some(<<W("Studio")>>)} }
    \cup { [DefaultCard EXCEPT !.baths = b] :
             b \in {None, Some(<<Dec(2, 5), Ws, W("Baths")>>)} }
    \cup { [DefaultCard EXCEPT !.sqft = q] :
             q \in {None, Some(<<Num(<<2, 200>>), Ws, W("sq ft")>>)} }
    \cup { [DefaultCard EXCEPT !.img = None] }
    \cup { [DefaultCard EXCEPT !.planNav = FALSE] }
    \cup { [DefaultCard EXCEPT !.tabs = t] : t \in TabsKinds }
    \cup { [DefaultCard EXCEPT !.siteNav = FALSE] }
    \cup { [DefaultCard EXCEPT !.box = FALSE] }
    \cup { [DefaultCard EXCEPT !.items = c] :
             c \in { Carousel(MaxCarousel, 0), Carousel(MaxCarousel, 2),
                     Carousel(MaxCarousel, MaxCarousel) } }

\* the cards of a page, each with a detail link of its own
WithLinks(cs) ==
    [i \in 1..Len(cs) |->
        IF cs[i].link # None /\ Get(cs[i].link) # None
        THEN [cs[i] EXCEPT !.link = Some(Some(LotLink(i)))] ELSE cs[i]]

Page(h, cs) == [hdr |-> h, cards |-> WithLinks(cs)]

\* the pages explored behind the default URL: as rendered, and as the card
\* lookup of extract_homeplans finds their cards
SinglePages == { Page(h, <<DefaultCard>>) : h \in HeaderKinds }
CardPages == { Page(DefaultHeader, cs) : cs \in SeqsUpTo(PlanCardKinds, MaxPlanCards) }

\* pages with two cards that show a floor plan of one model name, each with the
\* square footage of the plan, and a third card that shows a move-in-ready home
\* of that plan with 1,950 sq ft; all three are <li> elements of the one class
\* that both extract_homeplans and the homesite loop select
PlanSqftKinds == { DefaultCard.sqft, Some(<<Num(<<2, 200>>), Ws, W("sq ft")>>) }
FixturePages ==
    { Page(DefaultHeader,
           <<[DefaultCard EXCEPT !.sqft = q1], [DefaultCard EXCEPT !.sqft = q2],
             DefaultCard>>) : q1, q2 \in PlanSqftKinds }

\* the pages explored behind the URLs of a batch file
BatchPages ==
    { Page(DefaultHeader, << >>), Page(DefaultHeader, <<DefaultCard>>),
      Page([DefaultHeader EXCEPT !.nameBox = None], <<DefaultCard>>),
      Page(DefaultHeader, <<[DefaultCard EXCEPT !.title = None]>>) }

----------------------------------------------------------------------------
(* get_centurycommunities_page.py : get_coordinates *)

\* re.sub(r',+', ',', address).strip()
RECURSIVE CollapseCommas(_)
CollapseCommas(t) ==
    IF Len(t) < 2 THEN t
    ELSE IF t[1] = Comma /\ t[2] = Comma THEN CollapseCommas(Tail(t))
    ELSE <<t[1]>> \o CollapseCommas(Tail(t))
CleanAddress(address) == Strip(CollapseCommas(address))

\* [A-Z]{2} at the start of a word
StartsWithTwoCapitals(tok) == tok.k = "w" /\ tok.s \in {"GA", "TX", "FL"}

\* re.search(r'([^,]+),\s*([A-Z]{2})', clean_address): the commas that end a
\* comma-free run and are followed, after white space, by a state code
StateCommas(t) ==
    { i \in 2..(Len(t) - 1) :
        /\ t[i] = Comma
        /\ t[i - 1] # Comma
        /\ LET rest == LStrip(SubSeq(t, i + 1, Len(t)))
           IN  rest # << >> /\ StartsWithTwoCapitals(rest[1]) }

\* f"{city_state_match.group(1)}, {city_state_match.group(2)}"
CityStateQuery(t) ==
    LET i == SetMin(StateCommas(t))
        before == SubSeq(t, 1, i - 1)
        cut == {j \in 1..(i - 1) : t[j] = Comma}
        run == IF cut = {} THEN before
               ELSE SubSeq(t, (CHOOSE j \in cut : \A m \in cut : m <= j) + 1, i - 1)
    IN  run \o <<Comma, Ws>> \o <<LStrip(SubSeq(t, i + 1, Len(t)))[1]>>

\* what geolocator.geocode(query, timeout=10) does: a location, nothing, or an
\* exception (GeocoderTimedOut, GeocoderServiceError, or one of another class)
Located(la, lo) == [kind |-> "location", lat |-> la, lon |-> lo]
Nothing == [kind |-> "nothing"]
Raises(e) == [kind |-> "raises", error |-> e]
GeoOutcomes ==
    { Located(35, 86), Located(0, 86), Nothing,
      Raises("GeocoderTimedOut"), Raises("GeocoderServiceError"), Raises("other") }

\* except (GeocoderTimedOut, GeocoderServiceError)
CaughtOnlyTimeout == {"GeocoderTimedOut"}
Caught == {"GeocoderTimedOut", "GeocoderServiceError"}

----------------------------------------------------------------------------
(* get_centurycommunities_page.py : fetch_page, the heading elements *)

\* data = {...}: the fields of the record that the code fills
InitialData(u) ==
    [ url |-> u, name |-> None, price_from |-> None, address |-> None,
      phone |-> None, description |-> None, images |-> << >>,
      latitude |-> None, longitude |-> None,
      city |-> None, state |-> None, market |-> None,
      price_range |-> None, sqft_range |-> None, bed_range |-> None,
      bath_range |-> None, stories_range |-> None,
      homeplans |-> << >>, homesites |-> << >>, nearbyplaces |-> << >> ]


\* a statement that completes and leaves the record as d
Step(from, to, d) ==
    /\ pc = from
    /\ pc' = to
    /\ data' = d
    /\ UNCHANGED <<raised, others>>

\* a statement that raises: control passes to fetch_page's except clause
Fail(from, cause) ==
    /\ pc = from
    /\ pc' = "fp_except"
    /\ raised' = cause
    /\ UNCHANGED <<data, others>>

\* driver = None; community_name = ...; driver = setup_chrome_driver()
FetchStart ==
    /\ pc = "fp_start"
    /\ \/ /\ drv' = "open"
          /\ created' = created + 1
          /\ pc' = "fp_get"
          /\ raised' = "none"
       \/ /\ drv' = "none"
          /\ UNCHANGED created
          /\ pc' = "fp_except"
          /\ raised' = "setup_chrome_driver"
    /\ ret' = None
    /\ geoCalls' = << >>
    /\ data' = InitialData(None)
    /\ page' = Page(DefaultHeader, << >>)
    /\ seen_models' = {}
    /\ homeplans' = << >>
    /\ cardIdx' = 1
    /\ sqft_values' = << >>
    /\ bed_values' = << >>
    /\ bath_values' = << >>
    /\ navs' = << >>
    /\ arg' = url
    /\ UNCHANGED <<lateNav, quits, linkVars, exVars, mainVars, url>>

\* driver.get(url); time.sleep(5): the page the site serves is rendered
FetchGet ==
    /\ pc = "fp_get"
    /\ Navigate
    /\ \/ /\ pc' = "fp_except"
          /\ raised' = "driver.get"
          /\ UNCHANGED page
       \/ /\ pc' = "fp_save"
          /\ page' \in (IF mode = "default" THEN SinglePages ELSE BatchPages)
          /\ UNCHANGED raised
    /\ UNCHANGED <<linkVars, exVars, mainVars, url, data, ret, geoCalls, loopVars, navs, arg>>

\* os.makedirs, the HTML file, BeautifulSoup(...) and data = {...}
FetchSaveHtml ==
    \/ Step("fp_save", "fp_name", InitialData(Some(url)))
    \/ Fail("fp_save", "save html")

\* name_elem = soup.find('div', class_='community_listing_details').find('h1')
FetchName ==
    LET box == page.hdr.nameBox
    IN  IF box = None THEN Fail("fp_name", "name container")
        ELSE IF Get(box) = None THEN Step("fp_name", "fp_price", data)
        ELSE IF StrippedLines(Get(Get(box))) = << >> THEN Fail("fp_name", "name parts")
        ELSE Step("fp_name", "fp_price",
                  [data EXCEPT !.name = Some(StrippedLines(Get(Get(box)))[1])])

\* soup.find('span', class_='price'): the first span.price of the document, the
\* heading's or else a card's
FirstPriceSpan(pg) ==
    LET at == {i \in 1..Len(pg.cards) : pg.cards[i].price # None}
    IN  IF pg.hdr.price # None THEN pg.hdr.price
        ELSE IF at = {} THEN None ELSE pg.cards[SetMin(at)].price

\* price_elem ... data["price_from"] = f"From {price}"; price_range likewise
FetchPrice ==
    LET elem == FirstPriceSpan(page)
        price == IF elem = None THEN None
                 ELSE ExtractPrice(Some(Strip(Get(elem)))).value
    IN  Step("fp_price", "fp_address",
             IF price = None THEN data
             ELSE [data EXCEPT !.price_from = Some(<<W("From"), Ws>> \o Get(price)),
                               !.price_range = Some(<<W("From"), Ws>> \o Get(price))])

\* the address string and city/state/market of lines 339-349
WithAddress(d, text) ==
    LET parts == StrippedLines(text)
        pieces == IF parts = << >> THEN << >> ELSE SplitOn(parts[Len(parts)], Comma)
        zip == IF Len(pieces) >= 2 THEN SplitWs(Strip(pieces[2])) ELSE << >>
        d1 == [d EXCEPT !.address = Some(Join(parts, <<Comma, Ws>>))]
    IN  IF Len(parts) >= 2 /\ Len(pieces) >= 2
        THEN [d1 EXCEPT !.city = Some(Strip(pieces[1])),
                        !.state = IF zip = << >> THEN None ELSE Some(zip[1]),
                        !.market = Some(<<W("Atlanta Metro")>>)]
        ELSE d1

\* for script in script_tags: the first script holding both a latitude and a
\* longitude
ScriptCoordinates(scripts) ==
    LET at == {i \in 1..Len(scripts) : scripts[i].lat # None /\ scripts[i].lon # None}
    IN  IF at = {} THEN None ELSE Some(scripts[SetMin(at)])

WithCoordinates(d, la, lo) == [d EXCEPT !.latitude = Some(la), !.longitude = Some(lo)]

\* address_elem and, inside "if address_elem:", the coordinates of the script
\* content or of the map container; without them control passes to the geocoder
FetchAddressAlwaysGeocodes ==
    LET elem == page.hdr.address
    IN  IF elem = None THEN Step("fp_address", "fp_phone", data)
        ELSE Step("fp_address", "fp_geo_full", WithAddress(data, Get(elem)))
FetchAddress ==
    LET elem == page.hdr.address
        d == WithAddress(data, Get(elem))
        sc == ScriptCoordinates(page.hdr.scripts)
        mp == page.hdr.map
    IN  IF elem = None THEN Step("fp_address", "fp_phone", data)
        ELSE IF sc # None
        THEN Step("fp_address", "fp_phone",
                  WithCoordinates(d, Get(Get(sc).lat), Get(Get(sc).lon)))
        ELSE IF mp = None THEN Step("fp_address", "fp_geo_full", d)
        ELSE IF Get(mp).lat = None \/ Get(mp).lon = None
        THEN Fail("fp_address", "map attribute")
        ELSE Step("fp_address", "fp_phone",
                  WithCoordinates(d, Get(Get(mp).lat), Get(Get(mp).lon)))

\* one call of geolocator.geocode inside get_coordinates, then the rest of
\* get_coordinates and "if lat and lon:" of fetch_page
Geocode(from, query, retry) ==
    /\ pc = from
    /\ \E out \in GeoOutcomes :
          /\ geoCalls' = Append(geoCalls, [query |-> query, out |-> out])
          /\ IF out.kind = "location"
             THEN /\ pc' = "fp_phone"
                  /\ data' = IF out.lat # 0 /\ out.lon # 0
                             THEN WithCoordinates(data, out.lat, out.lon) ELSE data
                  /\ UNCHANGED raised
             ELSE IF out.kind = "nothing"
             THEN /\ pc' = IF retry THEN "fp_geo_city" ELSE "fp_phone"
                  /\ UNCHANGED <<data, raised>>
             ELSE IF out.error \in Caught
             THEN /\ pc' = "fp_phone"
                  /\ UNCHANGED <<data, raised>>
             ELSE /\ pc' = "fp_except"
                  /\ raised' = "geocode"
                  /\ UNCHANGED data
    /\ UNCHANGED <<drvVars, linkVars, exVars, mainVars, url, page, ret, loopVars, navs, arg>>

\* location = geolocator.geocode(clean_address, timeout=10)
GeocodeFull ==
    LET clean == CleanAddress(Get(data.address))
    IN  Geocode("fp_geo_full", clean, StateCommas(clean) # {})

\* location = geolocator.geocode(city_state, timeout=10)
GeocodeCity ==
    Geocode("fp_geo_city", CityStateQuery(CleanAddress(Get(data.address))), FALSE)

\* phone_elem = soup.find('a', class_='cells phone'); phone_elem.find('span')
FetchPhone ==
    LET elem == page.hdr.phone
    IN  IF elem = None THEN Step("fp_phone", "fp_description", data)
        ELSE IF Get(elem) = None THEN Fail("fp_phone", "phone span")
        ELSE Step("fp_phone", "fp_description",
                  [data EXCEPT !.phone = Some(Strip(Get(Get(elem))))])

\* the overview section's first paragraph, else the description section's
FetchDescription ==
    LET ov == page.hdr.overview
        fb == page.hdr.fallback
        first == IF ov # None /\ Get(ov) # None
                 THEN Some(Squeeze(Strip(Get(Get(ov))))) ELSE None
        second == IF fb # None /\ Get(fb) # None
                  THEN Some(Squeeze(Strip(Get(Get(fb))))) ELSE first
    IN  Step("fp_description", "fp_image",
             [data EXCEPT !.description =
                 IF first = None \/ Get(first) = << >> THEN second ELSE first])

\* get_first_valid_image(container)
FirstValidImage(container) ==
    LET imgs == Get(container)
        ok == {i \in 1..Len(imgs) :
                 /\ imgs[i] # None
                 /\ Get(imgs[i]) # << >>
                 /\ Get(imgs[i])[1] # "data:"}
    IN  IF container = None \/ ok = {} THEN None
        ELSE Some(Normalize(Get(imgs[SetMin(ok)])))

\* main_image = get_first_valid_image(image_container)
FetchImage ==
    LET img == FirstValidImage(page.hdr.carousel)
    IN  Step("fp_image", "fp_cards",
             IF img = None THEN data ELSE [data EXCEPT !.images = <<Get(img)>>])

----------------------------------------------------------------------------
(* get_centurycommunities_page.py : get_floorplan_images, extract_homeplans *)

\* 'Options' in tab.text
MentionsOptions(text) ==
    \E i \in 1..Len(text) :
        text[i].k = "w" /\ text[i].s \in {"Options", "Design Options"}

\* the loop over the tabs from tab i on; tab_text is None while the name is
\* unbound.  The result is None where the except clause of the loop itself
\* raises (it formats tab_text), which the outer except turns into [].
RECURSIVE TabsFrom(_, _, _, _)
TabsFrom(tabs, i, images, tab_text) ==
    IF i > Len(tabs) THEN Some(images)
    ELSE LET tab == tabs[i]
             label == Strip(Get(tab.text))
             src == Get(Get(tab.img))
         IN  IF tab.text = None
             THEN IF tab_text = None THEN None
                  ELSE TabsFrom(tabs, i + 1, images, tab_text)
             ELSE IF MentionsOptions(Get(tab.text))
             THEN TabsFrom(tabs, i + 1, images, tab_text)
             ELSE IF tab.img = None \/ Get(tab.img) = None
                     \/ src = << >> \/ src[1] = "data:"
             THEN TabsFrom(tabs, i + 1, images, Some(label))
             ELSE TabsFrom(tabs, i + 1,
                           Append(images, [name |-> label \o <<Ws, W("Floorplan")>>,
                                           image_url |-> Normalize(src)]),
                           Some(label))

\* get_floorplan_images(driver, url), for the detail page behind a card
GetFloorplanImages(card) ==
    IF ~card.planNav THEN << >>
    ELSE LET r == TabsFrom(card.tabs, 1, << >>, None)
         IN  IF r = None THEN << >> ELSE Get(r)

\* the first element lookup of a card's summary that fails, in the order of
\* lines 182-193; "none" if the homeplan can be built
PlanCardFailure(c) ==
    IF c.link = None \/ Get(c.link) = None THEN "plan link"
    ELSE IF c.price = None THEN "plan price"
    ELSE IF c.beds = None THEN "plan beds"
    ELSE IF c.baths = None THEN "plan baths"
    ELSE IF c.sqft = None THEN "plan sqft"
    ELSE IF c.img = None THEN "plan image"
    ELSE "none"

\* homeplan = {...} of a card whose lookups all succeed
HomeplanOf(c) ==
    [ name |-> Strip(Get(c.title)),
      url |-> Normalize(Get(Get(c.link))),
      price |-> Strip(Get(c.price)),
      beds |-> Strip(Get(c.beds)),
      baths |-> Strip(Get(c.baths)),
      sqft |-> Strip(Get(c.sqft)),
      image_url |-> IF Get(c.img) = None \/ Get(Get(c.img)) = << >> THEN << >>
                    ELSE Normalize(Get(Get(c.img))),
      floorplan_images |-> GetFloorplanImages(c) ]

\* if name in seen_models: continue
AlreadySeenNever(name) == FALSE
AlreadySeen(name) == name \in seen_models

\* cards = soup.find_all('li', class_='floor_plan_contain card quick-move-in-card')
\* The cards of the reference page are drawn here, where they are first read.
FindCards ==
    /\ pc = "fp_cards"
    /\ pc' = "fp_plans"
    /\ IF mode = "default" /\ page.hdr = DefaultHeader
       THEN page' \in CardPages \cup FixturePages
       ELSE UNCHANGED page
    /\ UNCHANGED <<drvVars, linkVars, exVars, mainVars, url, data, ret, raised, geoCalls,
                   loopVars, navs, arg>>

\* one iteration of: for card in cards (extract_homeplans)
PlanCard ==
    /\ pc = "fp_plans"
    /\ cardIdx <= Len(page.cards)
    /\ LET c == page.cards[cardIdx]
       IN  IF c.title = None
           THEN /\ pc' = "fp_except"
                /\ raised' = "plan title"
                /\ UNCHANGED <<drvVars, seen_models, homeplans, cardIdx, navs>>
           ELSE IF AlreadySeen(Strip(Get(c.title)))
           THEN /\ cardIdx' = cardIdx + 1
                /\ UNCHANGED <<pc, raised, drvVars, seen_models, homeplans, navs>>
           ELSE IF PlanCardFailure(c) # "none"
           THEN /\ pc' = "fp_except"
                /\ raised' = PlanCardFailure(c)
                /\ seen_models' = seen_models \cup {Strip(Get(c.title))}
                /\ UNCHANGED <<drvVars, homeplans, cardIdx, navs>>
           ELSE /\ Navigate
                /\ navs' = Append(navs, [by |-> "plan", card |-> cardIdx,
                                         url |-> Normalize(Get(Get(c.link)))])
                /\ seen_models' = seen_models \cup {Strip(Get(c.title))}
                /\ homeplans' = Append(homeplans, HomeplanOf(c))
                /\ cardIdx' = cardIdx + 1
                /\ UNCHANGED <<pc, raised>>
    /\ UNCHANGED <<linkVars, exVars, mainVars, url, page, data, ret, geoCalls,
                   sqft_values, bed_values, bath_values, arg>>

\* return homeplans; data['homeplans'] = ...
PlansReturn ==
    /\ pc = "fp_plans"
    /\ cardIdx > Len(page.cards)
    /\ data' = [data EXCEPT !.homeplans = homeplans]
    /\ cardIdx' = 1
    /\ pc' = "fp_sites"
    /\ UNCHANGED <<drvVars, linkVars, exVars, mainVars, url, page, ret, raised, geoCalls,
                   seen_models, homeplans, sqft_values, bed_values, bath_values, navs, arg>>

----------------------------------------------------------------------------
(* get_centurycommunities_page.py : get_homesite_images, the homesite loop *)

\* for item in carousel_items: if count >= 12: break ...
RECURSIVE ImagesFrom(_, _, _)
ImagesFrom(items, i, images) ==
    IF i > Len(items) \/ Len(images) >= MaxImages THEN images
    ELSE IF items[i] = None \/ Get(items[i]) = << >>
    THEN ImagesFrom(items, i + 1, images)
    ELSE ImagesFrom(items, i + 1, Append(images, Normalize(Get(items[i]))))

\* get_homesite_images(driver, url), for the detail page behind a card
GetHomesiteImagesUncapped(card) ==
    IF ~card.siteNav \/ ~card.box THEN << >>
    ELSE SelectSeq(card.items, LAMBDA it : it # None)
GetHomesiteImages(card) ==
    IF ~card.siteNav \/ ~card.box THEN << >>
    ELSE ImagesFrom(card.items, 1, << >>)

\* the first word of a specification span: text.strip().split()[0]
FirstWord(text) ==
    LET ws == SplitWs(Strip(text)) IN IF ws = << >> THEN None ELSE Some(ws[1])

\* the statement of the homesite loop body that raises, "none" if none does
SiteCardFailure(c, u) ==
    IF c.beds # None /\ FirstWord(Get(c.beds)) = None THEN "homesite beds"
    ELSE IF c.beds # None /\ IntOf(Get(FirstWord(Get(c.beds)))) = None
    THEN "homesite beds"
    ELSE IF c.baths # None /\ FirstWord(Get(c.baths)) = None THEN "homesite baths"
    ELSE IF c.baths # None /\ FloatOf(Get(FirstWord(Get(c.baths)))) = None
    THEN "homesite baths"
    ELSE IF c.sqft # None /\ FirstWord(Get(c.sqft)) = None THEN "homesite sqft"
    ELSE IF c.sqft # None /\ IntOf(RemoveCommas(Get(FirstWord(Get(c.sqft))))) = None
    THEN "homesite sqft"
    ELSE IF c.link # None /\ Get(c.link) = None THEN "homesite link"
    ELSE IF SecondToLastSegment(u) = None THEN "homesite id"
    ELSE "none"

\* the value of the local variable url after "if url_elem:" of a card
UrlAfter(c, u) == IF c.link = None THEN u ELSE Normalize(Get(Get(c.link)))

\* homesite = {...} as it is appended, u being the local url before the card
HomesiteOf(c, u, d) ==
    LET street == Strip(SplitOn(Strip(Get(c.street)), W("|"))[1])
        src == Normalize(Get(Get(c.img)))
        hasImg == c.img # None /\ Get(c.img) # None /\ Get(Get(c.img)) # << >>
    IN  [ name |-> IF c.street = None THEN None ELSE Some(street),
          address |-> IF c.street = None THEN None
                      ELSE Some(street \o <<Comma, Ws, W("McDonough"), Comma, Ws, W("GA")>>),
          plan |-> IF c.title = None THEN None ELSE Some(Strip(Get(c.title))),
          price |-> IF c.price = None THEN None ELSE Some(Strip(Get(c.price))),
          beds |-> IF c.beds = None THEN None ELSE FirstWord(Get(c.beds)),
          baths |-> IF c.baths = None THEN None ELSE FirstWord(Get(c.baths)),
          sqft |-> IF c.sqft = None THEN None
                   ELSE Some(RemoveCommas(Get(FirstWord(Get(c.sqft))))),
          image_url |-> IF hasImg THEN Some(src) ELSE None,
          url |-> IF c.link = None THEN None ELSE Some(UrlAfter(c, u)),
          images |-> IF c.link # None THEN GetHomesiteImages(c)
                     ELSE IF hasImg THEN <<src>> ELSE << >>,
          id |-> Some(LotId(UrlAfter(c, u))),
          latitude |-> d.latitude,
          longitude |-> d.longitude,
          overview |-> IF c.flags = << >> THEN None
                       ELSE Some(Join([i \in 1..Len(c.flags) |-> Strip(c.flags[i])],
                                      <<Ws>>)) ]

\* one iteration of: for qmi in qmi_containers
SiteCard ==
    /\ pc = "fp_sites"
    /\ cardIdx <= Len(page.cards)
    /\ LET c == page.cards[cardIdx]
           cause == SiteCardFailure(c, UrlAfter(c, url))
           navigates == c.link # None /\ cause \notin
                           {"homesite beds", "homesite baths", "homesite sqft", "homesite link"}
       IN  /\ IF navigates
              THEN /\ Navigate
                   /\ navs' = Append(navs, [by |-> "site", card |-> cardIdx,
                                            url |-> UrlAfter(c, url)])
              ELSE UNCHANGED <<drvVars, navs>>
           /\ bed_values' =
                 IF c.beds # None /\ cause # "homesite beds"
                 THEN Append(bed_values, Get(IntOf(Get(FirstWord(Get(c.beds))))))
                 ELSE bed_values
           /\ bath_values' =
                 IF c.baths # None /\ cause \notin {"homesite beds", "homesite baths"}
                 THEN Append(bath_values, Get(FloatOf(Get(FirstWord(Get(c.baths))))))
                 ELSE bath_values
           /\ sqft_values' =
                 IF c.sqft # None
                    /\ cause \notin {"homesite beds", "homesite baths", "homesite sqft"}
                 THEN Append(sqft_values,
                             Get(IntOf(RemoveCommas(Get(FirstWord(Get(c.sqft)))))))
                 ELSE sqft_values
           /\ url' = IF navigates THEN UrlAfter(c, url) ELSE url
           /\ IF cause # "none"
              THEN /\ pc' = "fp_except"
                   /\ raised' = cause
                   /\ UNCHANGED <<data, cardIdx>>
              ELSE /\ data' = [data EXCEPT !.homesites =
                                  Append(@, HomesiteOf(c, url, data))]
                   /\ cardIdx' = cardIdx + 1
                   /\ UNCHANGED <<pc, raised>>
    /\ UNCHANGED <<linkVars, exVars, mainVars, page, ret, geoCalls, seen_models, homeplans, arg>>

\* "{min} - {max} <unit>" or "{min} <unit>"
RangeText(lo, hi, unit) ==
    IF lo # hi THEN lo \o <<Ws, W("-"), Ws>> \o hi \o <<Ws, W(unit)>>
    ELSE lo \o <<Ws, W(unit)>>

\* stories = 2 if max_sqft > 2000 else 1
StoriesThreshold == 2000

\* "# Update details ranges" and the stories estimate, after the loop
FetchRanges ==
    /\ cardIdx > Len(page.cards)
    /\ Step("fp_sites", "fp_nearby",
            [data EXCEPT
               !.sqft_range =
                   IF sqft_values = << >> THEN @
                   ELSE Some(RangeText(FormatThousands(MinOf(sqft_values)),
                                       FormatThousands(MaxOf(sqft_values)), "sq ft")),
               !.bed_range =
                   IF bed_values = << >> THEN @
                   ELSE Some(RangeText(FormatInt(MinOf(bed_values)),
                                       FormatInt(MaxOf(bed_values)), "Beds")),
               !.bath_range =
                   IF bath_values = << >> THEN @
                   ELSE Some(RangeText(FormatFloat(MinOf(bath_values)),
                                       FormatFloat(MaxOf(bath_values)), "Baths")),
               !.stories_range =
                   IF sqft_values = << >> THEN @
                   ELSE Some(FormatInt(IF MaxOf(sqft_values) > StoriesThreshold
                                       THEN 2 ELSE 1) \o <<Ws, W("Story")>>) ])

----------------------------------------------------------------------------
(* get_centurycommunities_page.py : nearby places, the end of fetch_page *)

\* the places of one category section
PlacesOf(sec) ==
    LET ps == Get(sec.places)
        names == SelectSeq([i \in 1..Len(ps) |-> Strip(ps[i])], LAMBDA n : n # << >>)
    IN  IF sec.heading = None \/ sec.places = None THEN << >>
        ELSE [i \in 1..Len(names) |->
                 [name |-> names[i], category |-> Strip(Get(Get(sec.heading)))]]

RECURSIVE Flatten(_)
Flatten(ss) == IF ss = << >> THEN << >> ELSE Head(ss) \o Flatten(Tail(ss))

\* nearby_section ... data["nearbyplaces"].append(nearby)
FetchNearby ==
    LET secs == Get(page.hdr.nearby)
    IN  IF page.hdr.nearby = None THEN Step("fp_nearby", "fp_json", data)
        ELSE IF \E i \in 1..Len(secs) :
                   secs[i].heading # None /\ Get(secs[i].heading) = None
        THEN Fail("fp_nearby", "nearby heading")
        ELSE Step("fp_nearby", "fp_json",
                  [data EXCEPT !.nearbyplaces =
                      Flatten([i \in 1..Len(secs) |-> PlacesOf(secs[i])])])

\* with open(json_file, 'w') ...: json.dump(data); return data
FetchSaveJson ==
    /\ pc = "fp_json"
    /\ \/ /\ ret' = Some(data)
          /\ pc' = "fp_finally"
          /\ UNCHANGED raised
       \/ /\ pc' = "fp_except"
          /\ raised' = "save json"
          /\ UNCHANGED ret
    /\ UNCHANGED <<drvVars, linkVars, exVars, mainVars, url, page, data, geoCalls, loopVars, navs, arg>>

\* except Exception as e: logger.error(...); return None
ExceptAbortsBatch ==
    /\ pc = "fp_except"
    /\ ret' = None
    /\ urlIdx' = Len(urls) + 1
    /\ pc' = "fp_finally"
    /\ UNCHANGED <<drvVars, linkVars, exVars, mode, urls, attempts, url, page, data, raised,
                   geoCalls, loopVars, navs, arg>>
FetchExcept ==
    /\ pc = "fp_except"
    /\ ret' = None
    /\ pc' = "fp_finally"
    /\ UNCHANGED <<drvVars, linkVars, exVars, mainVars, url, page, data, raised, geoCalls,
                   loopVars, navs, arg>>

\* finally: if driver: try: driver.quit() except ...; then back in main
FinallyQuitsOnSuccessOnly ==
    /\ pc = "fp_finally"
    /\ IF drv = "open" /\ ret # None THEN QuitSession ELSE UNCHANGED drvVars
    /\ attempts' = Append(attempts, [url |-> arg, record |-> ret # None,
                                     raised |-> raised # "none"])
    /\ pc' = IF mode = "batch" THEN "pm_loop" ELSE "pm_done"
    /\ urlIdx' = urlIdx + 1
    /\ UNCHANGED <<linkVars, exVars, mode, urls, url, page, data, ret, raised, geoCalls,
                   loopVars, navs, arg>>
FetchFinally ==
    /\ pc = "fp_finally"
    /\ IF drv = "open" THEN QuitSession ELSE UNCHANGED drvVars
    /\ attempts' = Append(attempts, [url |-> arg, record |-> ret # None,
                                     raised |-> raised # "none"])
    /\ pc' = IF mode = "batch" THEN "pm_loop" ELSE "pm_done"
    /\ urlIdx' = urlIdx + 1
    /\ UNCHANGED <<linkVars, exVars, mode, urls, url, page, data, ret, raised, geoCalls,
                   loopVars, navs, arg>>

----------------------------------------------------------------------------
(* get_centurycommunities_page.py : main *)

ListingUrl(n) == Origin \o <<"/", "find-your-new-home", "/", n, "/">>
DefaultUrl == ListingUrl("oakhurst-manor")
BatchUrls == {ListingUrl("oakhurst-manor"), ListingUrl("avalon")}

\* parse_args, os.makedirs, and the branch on args.batch / args.url
PageMainStart ==
    /\ pc = "start"
    /\ \E m \in {"batch", "url", "default"} :
          /\ mode' = m
          /\ \/ /\ pc' = IF m = "batch" THEN "pm_batch" ELSE "fp_start"
                /\ url' = IF m = "url" THEN ListingUrl("avalon") ELSE DefaultUrl
             \/ /\ pc' = "pm_except"
                /\ UNCHANGED url
    /\ UNCHANGED <<drvVars, linkVars, exVars, urls, urlIdx, attempts, page, data, ret, raised,
                   geoCalls, loopVars, navs, arg>>

\* the search for the batch file, json.load, "if not urls: return"
BatchOpen ==
    /\ pc = "pm_batch"
    /\ \/ \* no candidate path exists, or json.load raises
          /\ pc' = "pm_done"
          /\ UNCHANGED urls
       \/ \E file \in SeqsUpTo(BatchUrls, MaxUrls) :
            /\ urls' = file
            /\ pc' = IF file = << >> THEN "pm_done" ELSE "pm_loop"
    /\ urlIdx' = 1
    /\ UNCHANGED <<drvVars, linkVars, exVars, mode, attempts, url, page, data, ret, raised,
                   geoCalls, loopVars, navs, arg>>

\* for i, url in enumerate(urls, 1): fetch_page(url, output_dir)
BatchNext ==
    /\ pc = "pm_loop"
    /\ IF urlIdx <= Len(urls)
       THEN /\ url' = urls[urlIdx]
            /\ pc' = "fp_start"
       ELSE /\ pc' = "pm_done"
            /\ UNCHANGED url
    /\ UNCHANGED <<drvVars, linkVars, exVars, mainVars, page, data, ret, raised, geoCalls,
                   loopVars, navs, arg>>

\* except Exception as e: logger.error("Main program execution error ...")
PageMainExcept ==
    /\ pc = "pm_except"
    /\ pc' = "pm_done"
    /\ UNCHANGED <<drvVars, linkVars, pageVars>>

----------------------------------------------------------------------------
\* no script has run a statement yet
Fresh ==
    /\ drv = "none"
    /\ lateNav = FALSE
    /\ created = 0
    /\ quits = 0
    /\ options = << >>
    /\ optIdx = 1
    /\ city_links = << >>
    /\ city_src = << >>
    /\ regIdx = 1
    /\ community_links = << >>
    /\ listing_links = << >>
    /\ found = << >>
    /\ regionOk = << >>
    /\ linksFile = None
    /\ mode = "none"
    /\ urls = << >>
    /\ urlIdx = 1
    /\ attempts = << >>
    /\ url = << >>
    /\ arg = << >>
    /\ page = Page(DefaultHeader, << >>)
    /\ data = InitialData(None)
    /\ ret = None
    /\ raised = "none"
    /\ geoCalls = << >>
    /\ navs = << >>
    /\ seen_models = {}
    /\ homeplans = << >>
    /\ cardIdx = 1
    /\ sqft_values = << >>
    /\ bed_values = << >>
    /\ bath_values = << >>
    /\ extracted = NotCalled

Init ==
    /\ pc = "start"
    /\ ex_text = None
    /\ Fresh

Next ==
    \/ LinksMainStart \/ CitySetup \/ CityGet \/ CitySave \/ CityParse
    \/ CityOption \/ CityReturn \/ CityExcept \/ CityFinally
    \/ LinksMainCity \/ ListSetup \/ ListRegion \/ ListReturn \/ ListFinally
    \/ LinksMainListings \/ LinksMainSave \/ LinksMainExcept
    \/ PageMainStart \/ BatchOpen \/ BatchNext \/ PageMainExcept
    \/ FetchStart \/ FetchGet \/ FetchSaveHtml \/ FetchName \/ FetchPrice
    \/ FetchAddress \/ GeocodeFull \/ GeocodeCity \/ FetchPhone
    \/ FetchDescription \/ FetchImage \/ FindCards \/ PlanCard \/ PlansReturn \/ SiteCard
    \/ FetchRanges \/ FetchNearby \/ FetchSaveJson \/ FetchExcept \/ FetchFinally

Spec == Init /\ [][Next]_vars

----------------------------------------------------------------------------
(* The field extractors, each called on its own with a text *)

ExtractInit ==
    /\ pc = "ex_call"
    /\ ex_text \in ExtractorInputs
    /\ Fresh

\* one call of an extractor with ex_text
Call(fn, out) ==
    /\ pc = "ex_call"
    /\ pc' = "ex_done"
    /\ extracted' = [fn |-> fn, out |-> out]
    /\ UNCHANGED <<ex_text, drvVars, linkVars, mainVars, url, page, data, ret, raised,
                   geoCalls, loopVars, navs, arg>>

CallExtractPrice == Call("extract_price", ExtractPrice(ex_text))
CallExtractBedsBaths == Call("extract_beds_baths", ExtractBedsBaths(ex_text))
CallExtractSqft == Call("extract_sqft", ExtractSqft(ex_text))

ExtractNext == CallExtractPrice \/ CallExtractBedsBaths \/ CallExtractSqft

ExtractSpec == ExtractInit /\ [][ExtractNext]_vars

----------------------------------------------------------------------------
(* Properties of link discovery *)

NoDuplicates(s) == \A i, j \in 1..Len(s) : i # j => s[i] # s[j]

\* the absolute URL an option value or href stands for
AbsoluteOf(h) == IF Len(h) >= 1 /\ h[1] = "http" THEN h ELSE Origin \o h

\* statements at which get_city_links's list and the control it read are in scope
CityLabels == {"cl_loop", "cl_except", "cl_finally", "lm_city"}

\* C1: the list get_city_links builds and returns has no entry that comes from
\* the first (placeholder) option or from an option whose value is the sentinel
\* "0" (or is missing or empty), holds no URL twice, each entry is the absolute
\* URL of the first selectable option that stands for it, and the entries are in
\* the order of those first occurrences.
CityLinksClean ==
    pc \in CityLabels =>
        /\ Len(city_src) = Len(city_links)
        /\ NoDuplicates(city_links)
        /\ \A k \in 1..Len(city_links) :
              LET i == city_src[k]
              IN  /\ i \in 2..Len(options)
                  /\ options[i] \notin {None, Some(<< >>), Some(SentinelValue)}
                  /\ city_links[k] = AbsoluteOf(Get(options[i]))
                  /\ \A j \in 2..(i - 1) :
                        options[j] \in {None, Some(<< >>), Some(SentinelValue)}
                        \/ AbsoluteOf(Get(options[j])) # city_links[k]
                  /\ \A m \in 1..(k - 1) : city_src[m] < i

\* get_city_links returned two regions from a control whose placeholder carries a
\* region path of its own and which holds a sentinel option after the placeholder
CityLinksCleanWitness ==
    /\ pc = "lm_city"
    /\ Len(city_links) = 2
    /\ Len(options) >= 4
    /\ options[1] = Some(<<"/", "fl">>)
    /\ \E i \in 2..Len(options) : options[i] = Some(SentinelValue)

\* statements at which get_community_links has computed its return value
ListingLabels == {"cm_finally", "lm_listings", "lm_save"}

\* C7: the list get_community_links returns holds no URL twice, whatever regions
\* the URLs come from, and holds the absolute URL of every href found on a titled
\* card of every region page that was processed.
ListingLinksGlobalDedup ==
    pc \in ListingLabels =>
        /\ NoDuplicates(listing_links)
        /\ \A r \in 1..Len(found) : \A h \in found[r] :
              AbsoluteOf(h) \in ToSet(listing_links)

\* two processed regions carry the same listing, once relative and once absolute,
\* and the returned list holds two URLs
ListingLinksGlobalDedupWitness ==
    /\ pc = "lm_listings"
    /\ Len(listing_links) = 2
    /\ \E r1, r2 \in 1..Len(found) :
          /\ r1 # r2
          /\ <<"/", "c1">> \in found[r1]
          /\ Origin \o <<"/", "c1">> \in found[r2]

\* C8: a region whose page fails is skipped and the loop goes on: when
\* get_community_links returns, every region was attempted, the hrefs of every
\* processed region, before or after a failed one, are in the result, and the
\* result is empty only if no processed region carried a link.
RegionFailureIsSkipped ==
    pc \in ListingLabels =>
        /\ Len(regionOk) = Len(city_links)
        /\ \A r \in 1..Len(regionOk) :
              regionOk[r] => \A h \in found[r] : AbsoluteOf(h) \in ToSet(listing_links)
        /\ (\E r \in 1..Len(regionOk) : found[r] # {}) => listing_links # << >>

\* the second of three regions failed; the first and the third each contributed
\* a listing of its own
RegionFailureIsSkippedWitness ==
    /\ pc = "lm_listings"
    /\ regionOk = <<TRUE, FALSE, TRUE>>
    /\ found[1] = {<<"/", "c1">>}
    /\ found[3] = {<<"/", "c2">>}
    /\ Len(listing_links) = 2

----------------------------------------------------------------------------
(* Properties of the listing scraper *)

\* C2: an exception raised while one listing's record is built makes fetch_page
\* return None for that listing only: in batch mode the attempts made so far are
\* the URLs of the batch file, each once and in file order, an attempt yields a
\* record exactly if nothing was raised in it, and when main ends every URL of
\* the file has been attempted.
BatchAttemptsEveryUrlOnce ==
    mode = "batch" =>
        /\ Len(attempts) <= Len(urls)
        /\ \A k \in 1..Len(attempts) :
              /\ attempts[k].url = urls[k]
              /\ attempts[k].record <=> ~attempts[k].raised
        /\ pc = "pm_done" => Len(attempts) = Len(urls)

\* a batch of two URLs ended after the first fetch raised and the second
\* produced a record
BatchAttemptsEveryUrlOnceWitness ==
    /\ mode = "batch"
    /\ pc = "pm_done"
    /\ Len(urls) = 2
    /\ Len(attempts) = 2
    /\ attempts[1].raised /\ ~attempts[1].record
    /\ attempts[2].record

\* the element lookups of the attributes that C3 lists
MissingAttributeCauses ==
    { "name container", "plan price", "plan beds", "plan baths", "plan sqft",
      "plan image", "nearby heading" }

\* C3: when one of the listed attributes (name container, price, beds, baths,
\* sqft, image, nearby-place heading label) is missing from the markup, the
\* field is stored as absent and fetch_page still returns the record.
MissingAttributeKeepsRecord ==
    (pc = "fp_finally" /\ raised \in MissingAttributeCauses) => ret # None

\* final states of the three functions that own a browser session, and the
\* statements of the two main functions
ReturnedLabels ==
    { "start", "lm_city", "lm_listings", "lm_save", "lm_except", "lm_done",
      "cl_setup", "cm_setup", "fp_start",
      "pm_batch", "pm_loop", "pm_except", "pm_done" }

\* C4: every browser session that get_city_links, get_community_links or
\* fetch_page creates is quit before the function returns, on every exit path,
\* and no page load is issued on a session that was quit.
SessionsAlwaysQuit ==
    /\ ~lateNav
    /\ quits <= created
    /\ pc \in ReturnedLabels => (drv # "open" /\ quits = created)

\* fetch_page created a session, raised on a floor-plan card after the page was
\* loaded, and returned
SessionsAlwaysQuitWitness ==
    /\ pc = "pm_done"
    /\ mode = "default"
    /\ raised = "plan price"
    /\ created = 1
    /\ quits = 1
    /\ drv = "quit"

\* the numbers that the homesites of a record carry in a field, read back from
\* the strings stored in the homesites (baths in tenths)
Carried(rec, field) ==
    LET hs == rec.homesites
    IN  IF field = "sqft"
        THEN {Get(IntOf(Get(hs[k].sqft))) : k \in {j \in 1..Len(hs) : hs[j].sqft # None}}
        ELSE IF field = "beds"
        THEN {Get(IntOf(Get(hs[k].beds))) : k \in {j \in 1..Len(hs) : hs[j].beds # None}}
        ELSE {Get(FloatOf(Get(hs[k].baths))) : k \in {j \in 1..Len(hs) : hs[j].baths # None}}

\* the range string that a set of carried numbers calls for: absent for no
\* number, "{min} <unit>" for one, "{min} - {max} <unit>" otherwise
ExpectedRange(vals, field) ==
    LET lo == CHOOSE v \in vals : \A w \in vals : v <= w
        hi == CHOOSE v \in vals : \A w \in vals : v >= w
        text(v) == IF field = "sqft" THEN FormatThousands(v)
                   ELSE IF field = "beds" THEN FormatInt(v) ELSE FormatFloat(v)
        unit == IF field = "sqft" THEN W("sq ft")
                ELSE IF field = "beds" THEN W("Beds") ELSE W("Baths")
    IN  IF vals = {} THEN None
        ELSE IF lo = hi THEN Some(text(lo) \o <<Ws, unit>>)
        ELSE Some(text(lo) \o <<Ws, W("-"), Ws>> \o text(hi) \o <<Ws, unit>>)

\* C5: in every completed record, for each of sqft, beds and baths, the range is
\* absent if no homesite carries the field and otherwise is built from the
\* minimum and the maximum over the homesites that carry it, "{min} - {max}
\* <unit>" if they differ and "{min} <unit>" if they are equal.
RangesAreMinMax ==
    ret # None =>
        LET rec == Get(ret)
        IN  /\ rec.sqft_range = ExpectedRange(Carried(rec, "sqft"), "sqft")
            /\ rec.bed_range = ExpectedRange(Carried(rec, "beds"), "beds")
            /\ rec.bath_range = ExpectedRange(Carried(rec, "baths"), "baths")

\* a record of two homesites, the larger one first: the sqft range spans
\* 1,950 - 2,200 and the bed range is collapsed to 3
RangesAreMinMaxWitness ==
    /\ ret # None
    /\ Len(Get(ret).homesites) = 2
    /\ Get(ret).homesites[1].sqft = Some(<<Num(<<2200>>)>>)
    /\ Get(ret).homesites[2].sqft = Some(<<Num(<<1950>>)>>)
    /\ Get(ret).sqft_range =
          Some(<<Num(<<1, 950>>), Ws, W("-"), Ws, Num(<<2, 200>>), Ws, W("sq ft")>>)
    /\ Get(ret).bed_range = Some(<<Num(<<3>>), Ws, W("Beds")>>)

\* the model name of a card
NameOf(c) == Strip(Get(c.title))

\* the cards that are the first of their model name, in page order
FirstOccurrences(cs) ==
    SelectSeq([i \in 1..Len(cs) |-> i],
              LAMBDA i : \A j \in 1..(i - 1) : NameOf(cs[j]) # NameOf(cs[i]))

\* the cards for which extract_homeplans loaded a detail page, in order
PlanNavigations ==
    LET ns == SelectSeq(navs, LAMBDA n : n.by = "plan")
    IN  [k \in 1..Len(ns) |-> ns[k].card]

\* C6: once extract_homeplans has returned, the homeplans are one per distinct
\* model name, in order of first occurrence, each built from the first card of
\* its name (url, price, beds, baths, sqft), and detail pages were loaded for
\* those first cards only.
HomeplansFirstOccurrenceWins ==
    pc \in {"fp_sites", "fp_nearby", "fp_json"} \/ ret # None =>
        LET cs == page.cards
            firsts == FirstOccurrences(cs)
            hp == data.homeplans
        IN  /\ Len(hp) = Len(firsts)
            /\ \A k \in 1..Len(hp) :
                  LET c == cs[firsts[k]]
                  IN  /\ hp[k].name = NameOf(c)
                      /\ hp[k].url = AbsoluteOf(Get(Get(c.link)))
                      /\ hp[k].price = Strip(Get(c.price))
                      /\ hp[k].beds = Strip(Get(c.beds))
                      /\ hp[k].baths = Strip(Get(c.baths))
                      /\ hp[k].sqft = Strip(Get(c.sqft))
            /\ \A k, m \in 1..Len(hp) : k # m => hp[k].name # hp[m].name
            /\ PlanNavigations = firsts

\* two cards of one model name, the second with other beds and padded title
\* text or without a price: one homeplan, with the first card's data
HomeplansFirstOccurrenceWinsWitness ==
    /\ pc = "fp_sites"
    /\ Len(page.cards) = 2
    /\ NameOf(page.cards[1]) = NameOf(page.cards[2])
    /\ page.cards[2].price = None
    /\ Len(data.homeplans) = 1
    /\ data.homeplans[1].url = Origin \o LotLink(1)
    /\ PlanNavigations = <<1>>

\* the geocoder calls of the current fetch that ended in a timeout or a service
\* error
TimedOutOrServiceError ==
    { k \in 1..Len(geoCalls) :
        /\ geoCalls[k].out.kind = "raises"
        /\ geoCalls[k].out.error \in {"GeocoderTimedOut", "GeocoderServiceError"} }

\* C9: a timeout or service error of either geocoder call ends get_coordinates
\* (it is the last call), is not propagated into fetch_page, leaves latitude
\* and longitude absent, and the fetch goes on: unless a later statement raises
\* for a reason of its own, the record is assembled and returned without
\* coordinates.
GeocoderErrorIsAbsorbed ==
    TimedOutOrServiceError # {} =>
        /\ TimedOutOrServiceError = {Len(geoCalls)}
        /\ raised # "geocode"
        /\ pc \notin {"fp_geo_full", "fp_geo_city"}
        /\ data.latitude = None /\ data.longitude = None
        /\ (pc = "fp_finally" /\ raised = "none") =>
              /\ ret # None
              /\ Get(ret).latitude = None /\ Get(ret).longitude = None
              /\ Len(Get(ret).homesites) = Len(page.cards)
              /\ \A k \in 1..Len(page.cards) : Get(ret).homesites[k].latitude = None

\* the full address found nothing, the city/state retry met a service error,
\* and the record came back with its description, homeplan, homesite and
\* nearby places
GeocoderErrorIsAbsorbedWitness ==
    /\ pc = "fp_finally"
    /\ ret # None
    /\ Len(geoCalls) = 2
    /\ geoCalls[1].out = Nothing
    /\ geoCalls[2].out = Raises("GeocoderServiceError")
    /\ Get(ret).description # None
    /\ Get(ret).homeplans # << >>
    /\ Get(ret).homesites # << >>
    /\ Get(ret).nearbyplaces # << >>
    /\ Get(ret).sqft_range # None

\* C10: every homesite of a record being built or returned has at most 12
\* images, however many items its detail page's carousel has; a homesite whose
\* detail page never shows the photo gallery has no images; and a returned
\* record has a homesite for every card, those included.
HomesiteImagesCapped ==
    /\ Len(data.homesites) <= Len(page.cards)
    /\ \A k \in 1..Len(data.homesites) :
          LET c == page.cards[k]
              h == data.homesites[k]
          IN  /\ Len(h.images) <= MaxImages
              /\ (c.link # None /\ ~c.box) => h.images = << >>
    /\ ret # None => Len(Get(ret).homesites) = Len(page.cards)

\* a returned record of two homesites: the gallery of the first never appeared,
\* the carousel of the second has more than 12 items, all with an image
HomesiteImagesCappedWitness ==
    /\ ret # None
    /\ Len(page.cards) = 2
    /\ page.cards[1].link # None /\ ~page.cards[1].box
    /\ Get(ret).homesites[1].images = << >>
    /\ Len(page.cards[2].items) > MaxImages
    /\ \A i \in 1..Len(page.cards[2].items) : page.cards[2].items[i] # None
    /\ Len(Get(ret).homesites[2].images) = MaxImages

----------------------------------------------------------------------------
(* Properties of the field extractors *)

\* a square-footage token in one of the variants "sq ft", "sqft", "square
\* feet", whatever the case, at token i
SquareFootageTokenAt(t, i) ==
    /\ i <= Len(t)
    /\ t[i].k = "w"
    /\ \/ t[i].s \in {"sqft", "SQFT", "SqFt", "Sq.Ft."}
       \/ /\ t[i].s \in {"sq", "SQ", "Sq.", "square", "Square"}
          /\ LET j == SkipSpace(t, i + 1)
             IN  /\ j <= Len(t)
                 /\ t[j].k = "w"
                 /\ t[j].s \in {"ft", "FT", "ft.", "Ft.", "feet", "Feet"}

\* the places of a text where a digit-and-comma group begins that precedes a
\* square-footage token
SquareFootageGroups(t) ==
    { s \in 1..Len(t) :
        /\ t[s].k \in {"num", "comma"}
        /\ SquareFootageTokenAt(t, SkipSpace(t, RunEnd(t, s) + 1)) }

\* C11: extract_sqft returns the first digit-and-comma group that precedes a
\* square-footage token, without its commas, the token being written "sq ft",
\* "sqft" or "square feet" in any case.
SqftAcceptsAllVariants ==
    (pc = "ex_done" /\ extracted.fn = "extract_sqft" /\ ex_text # None) =>
        LET t == Get(ex_text)
            s == SetMin(SquareFootageGroups(t))
        IN  SquareFootageGroups(t) # {} =>
               extracted.out = Returned(Some(RemoveCommas(SubSeq(t, s, RunEnd(t, s)))))

\* the numerals of a text that a word of the given kind follows, blanks apart
NumeralsBefore(t, words) ==
    { e \in 1..Len(t) :
        /\ t[e].k \in {"num", "dec"}
        /\ LET j == SkipSpace(t, e + 1)
           IN  j <= Len(t) /\ t[j].k = "w" /\ t[j].s \in words }

\* the dollar signs of a text that a digit or a comma follows
DollarAmounts(t) ==
    { i \in 1..(Len(t) - 1) : t[i] = Dollar /\ t[i + 1].k \in {"num", "comma", "dec"} }

\* the text holds the spelling "feet", which extract_sqft does not accept (C11)
SpellsFeet(t) == \E i \in 1..Len(t) : t[i] \in {W("feet"), W("Feet")}

\* C12: whatever the input (no text, the empty text, any text), each of the
\* three extractors returns and does not raise; without text the result is
\* None; where the text holds no target token the result is None, for beds and
\* for baths each on its own; and where it holds several, the result is taken
\* from the first.
ExtractorsNeverRaise ==
    pc = "ex_done" =>
        LET out == extracted.out
            t == Get(ex_text)
        IN  /\ out.kind = "returned"
            /\ extracted.fn = "extract_price" =>
                  IF ex_text = None \/ DollarAmounts(t) = {}
                  THEN out.value = None
                  ELSE /\ out.value # None
                       /\ Get(out.value)[1] = Dollar
                       /\ t[SetMin(DollarAmounts(t)) + 1].k = "num" =>
                             Get(out.value)[2] = t[SetMin(DollarAmounts(t)) + 1]
            /\ extracted.fn = "extract_beds_baths" =>
                  /\ IF ex_text = None \/ NumeralsBefore(t, BedWords) = {}
                     THEN out.value.beds = None
                     ELSE out.value.beds =
                             Some(<<LastDigits(t[SetMin(NumeralsBefore(t, BedWords))])>>)
                  /\ IF ex_text = None \/ NumeralsBefore(t, BathWords) = {}
                     THEN out.value.baths = None
                     ELSE LET tok == t[SetMin(NumeralsBefore(t, BathWords))]
                          IN  out.value.baths =
                                 Some(<<IF tok.k = "dec" THEN tok ELSE LastDigits(tok)>>)
            /\ extracted.fn = "extract_sqft" =>
                  IF ex_text = None \/ SquareFootageGroups(t) = {}
                  THEN out.value = None
                  ELSE ~SpellsFeet(t) =>
                          LET s == SetMin(SquareFootageGroups(t))
                          IN  out.value = Some(RemoveCommas(SubSeq(t, s, RunEnd(t, s))))

\* extract_beds_baths was called with "3 Beds 4BR": beds from the first match,
\* no baths
ExtractorsNeverRaiseWitness ==
    /\ pc = "ex_done"
    /\ extracted.fn = "extract_beds_baths"
    /\ ex_text = Some(<<Num(<<3>>), Ws, W("Beds"), Ws, Num(<<4>>), W("BR")>>)
    /\ extracted.out = Returned([beds |-> Some(<<Num(<<3>>)>>), baths |-> None])

----------------------------------------------------------------------------
(* Properties of the listing scraper, continued *)

\* the page is the fixture of C13: two floor-plan cards of one model name and
\* one move-in-ready home with 1,950 sq ft
IsFixture(pg) ==
    /\ Len(pg.cards) = 3
    /\ \A k \in 1..3 : pg.cards[k].title # None
    /\ NameOf(pg.cards[1]) = NameOf(pg.cards[2])
    /\ NameOf(pg.cards[3]) = NameOf(pg.cards[1])
    /\ pg.cards[3].sqft = Some(<<Num(<<1, 950>>), Ws, W("sq ft")>>)

\* C13: the record built from the fixture has one homeplan, the sqft range
\* "1,950 sq ft" and the stories range "1 Story".
FixtureRecord ==
    (ret # None /\ IsFixture(page)) =>
        /\ Len(Get(ret).homeplans) = 1
        /\ Get(ret).sqft_range = Some(<<Num(<<1, 950>>), Ws, W("sq ft")>>)
        /\ Get(ret).stories_range = Some(<<Num(<<1>>), Ws, W("Story")>>)

\* statements of get_community_links and of main after it
AfterRegionsLabels == {"cm_setup", "cm_loop", "cm_finally", "lm_listings", "lm_save"}

\* C14: a run that finds no region links, no listing links, no batch file or
\* an empty URL list ends early by a return: get_community_links runs only
\* with region links, the links file is written only with listing links (and
\* then holds them), and a batch run without URLs creates no browser session
\* and fetches no page.
StartupFailureEndsRun ==
    /\ pc \in AfterRegionsLabels => city_links # << >>
    /\ pc = "lm_save" => listing_links # << >>
    /\ linksFile # None => (listing_links # << >> /\ linksFile = Some(listing_links))
    /\ (pc = "lm_done" /\ city_links = << >>) => (regionOk = << >> /\ linksFile = None)
    /\ (mode = "batch" /\ urls = << >>) =>
          /\ pc \in {"pm_batch", "pm_except", "pm_done"}
          /\ created = 0
          /\ attempts = << >>
          /\ navs = << >>

\* the links script ended after two regions were read that carried no listing:
\* nothing was written
StartupFailureEndsRunWitness ==
    /\ pc = "lm_done"
    /\ Len(city_links) = 2
    /\ regionOk = <<TRUE, TRUE>>
    /\ listing_links = << >>
    /\ linksFile = None

\* a tab whose text and image can be read, that is no "Options" tab and whose
\* image has a source that is no data: URI
TabGivesImage(tab) ==
    /\ tab.text # None
    /\ ~MentionsOptions(Get(tab.text))
    /\ tab.img # None
    /\ Get(tab.img) # None
    /\ Get(Get(tab.img)) # << >>
    /\ Get(Get(tab.img))[1] # "data:"

\* one image per tab that gives one, in tab order
ImagesOfReadableTabs(tabs) ==
    LET good == SelectSeq(tabs, TabGivesImage)
    IN  [k \in 1..Len(good) |->
            [name |-> Strip(Get(good[k].text)) \o <<Ws, W("Floorplan")>>,
             image_url |-> AbsoluteOf(Get(Get(good[k].img)))]]

\* C15: a failure while one tab is read, the first tab's text included, omits
\* that tab's image only: the floor-plan images of a homeplan whose detail page
\* was loaded are those of all the other tabs that are no "Options" tabs.
TabFailureOmitsOnlyThatTab ==
    (pc \in {"fp_sites", "fp_nearby", "fp_json"} \/ ret # None) =>
        \A k \in 1..Len(data.homeplans) :
            LET c == page.cards[FirstOccurrences(page.cards)[k]]
            IN  c.planNav =>
                   data.homeplans[k].floorplan_images = ImagesOfReadableTabs(c.tabs)

\* the scripts of the page that embed both a latitude and a longitude
ScriptsWithBoth(pg) ==
    { i \in 1..Len(pg.hdr.scripts) :
        pg.hdr.scripts[i].lat # None /\ pg.hdr.scripts[i].lon # None }

\* C16: coordinates are taken from the first script that embeds them, else from
\* the map container, else from the geocoder: the geocoder is called only for a
\* page on which no script embeds both coordinates and no map container
\* exists, at most twice for one record, first with the full address, and with
\* city and state only after the first call found nothing.
GeocoderIsLastResort ==
    /\ Len(geoCalls) <= 2
    /\ geoCalls # << >> =>
          /\ ScriptsWithBoth(page) = {}
          /\ page.hdr.map = None
          /\ data.address # None
          /\ geoCalls[1].query = CleanAddress(Get(data.address))
    /\ Len(geoCalls) = 2 =>
          /\ geoCalls[1].out = Nothing
          /\ geoCalls[2].query = CityStateQuery(CleanAddress(Get(data.address)))
    /\ (data.address # None /\ ScriptsWithBoth(page) # {}) =>
          LET sc == page.hdr.scripts[SetMin(ScriptsWithBoth(page))]
          IN  data.latitude = sc.lat /\ data.longitude = sc.lon
    /\ (data.address # None /\ ScriptsWithBoth(page) = {} /\ page.hdr.map # None) =>
          /\ data.latitude = Get(page.hdr.map).lat
          /\ data.longitude = Get(page.hdr.map).lon

\* a record whose page gave no coordinates: the full address found nothing,
\* the city/state retry found the place
GeocoderIsLastResortWitness ==
    /\ ret # None
    /\ Len(geoCalls) = 2
    /\ geoCalls[1].out = Nothing
    /\ geoCalls[2].out = Located(35, 86)
    /\ geoCalls[2].query # geoCalls[1].query
    /\ Get(ret).latitude = Some(35)
    /\ Get(ret).longitude = Some(86)

\* C17: the id of every homesite is cut from the homesite's own detail URL (the
\* path segment before "---"); a homesite whose card has no detail link has
\* neither a url nor an id.
HomesiteIdFromOwnUrl ==
    \A k \in 1..Len(data.homesites) :
        LET c == page.cards[k]
            h == data.homesites[k]
        IN  IF c.link = None
            THEN h.url = None /\ h.id = None
            ELSE /\ h.url = Some(Origin \o LotLink(k))
                 /\ h.id = Some(<<"lot" \o ToString(k)>>)

\* the coordinates that the page embeds: those of the first script with both,
\* else those of the map container; None if it embeds none
EmbeddedCoordinates(pg) ==
    IF ScriptsWithBoth(pg) # {}
    THEN Some(pg.hdr.scripts[SetMin(ScriptsWithBoth(pg))])
    ELSE IF pg.hdr.map # None /\ Get(pg.hdr.map).lat # None /\ Get(pg.hdr.map).lon # None
    THEN pg.hdr.map
    ELSE None

\* C18: whenever the page embeds a latitude and a longitude, in a script or in
\* the map container, the completed record carries them and so does every
\* homesite, whether or not the page has an address element.
EmbeddedCoordinatesAlwaysUsed ==
    (ret # None /\ EmbeddedCoordinates(page) # None) =>
        LET at == Get(EmbeddedCoordinates(page))
            rec == Get(ret)
        IN  /\ rec.latitude = at.lat
            /\ rec.longitude = at.lon
            /\ \A k \in 1..Len(rec.homesites) :
                  /\ rec.homesites[k].latitude = at.lat
                  /\ rec.homesites[k].longitude = at.lon
====
